---- MODULE Spec2Model ----
(***************************************************************************)
(* A model of src/src/template.py: the lexer, the block and expression     *)
(* parsers of parse_templates, the node classes (execute, children,        *)
(* with_children, clone, __str__), Env and the escape pass.                *)
(*                                                                         *)
(* Text is a sequence of one-character strings.  Positions are 1-based     *)
(* here and 0-based in the Python source: a Python index p is p+1 below,   *)
(* so "pos == len(tokens)" reads "pos = Len(tokens) + 1".  Line numbers    *)
(* are values, kept as the source computes them (the first line is 0).     *)
(* A raised exception is a record [ok |-> FALSE, exc, line, msg]; the      *)
(* source name src is fixed (SrcName) and carried by every diagnostic.     *)
(***************************************************************************)
EXTENDS Integers, Sequences, FiniteSets, TLC

VARIABLES
    code,      \* parse_templates: the template text given
    name,      \* parse_templates: the external template name, or NoName
    env,       \* the Env parse_templates returned, or the failure it raised
    fns,       \* _BUILTINS, the registry every Env shares: the names registered
    last,      \* the last operation run on env and what it gave
    escapes,   \* how many times escape has run on env
    runs,      \* executions and renderings of env since it last changed
    etext,     \* expression text given to parse_expr_prefix / data to evaluate on
    eres,      \* what the expression parser and evaluator gave
    node,      \* a node given to with_children / clone
    nres,      \* what with_children / clone gave
    heap       \* the objects: nodes, template maps, registries and Envs

vars == <<code, name, env, fns, last, escapes, runs, etext, eres, node, nres, heap>>

-----------------------------------------------------------------------------
(* Characters and strings *)

SrcName == <<"s">>

\* str.strip() removes these; a token t with "not t.strip()" holds only these.
Whitespace == {" ", "\t", "\n", "\r", "\f"}

IsBlank(s) == \A i \in DOMAIN s : s[i] \in Whitespace

Letters ==
    {"a","b","c","d","e","f","g","h","i","j","k","l","m","n","o","p","q","r","s",
     "t","u","v","w","x","y","z","A","B","C","D","E","F","G","H","I","J","K","L",
     "M","N","O","P","Q","R","S","T","U","V","W","X","Y","Z"}

Digits == {"0","1","2","3","4","5","6","7","8","9"}

\* \w of the re module
WordChars == Letters \cup Digits \cup {"_"}

RECURSIVE Concat(_)
Concat(ss) == IF ss = <<>> THEN <<>> ELSE Head(ss) \o Concat(Tail(ss))

RECURSIVE Join(_, _)
Join(sep, ss) ==
    IF ss = <<>> THEN <<>>
    ELSE IF Len(ss) = 1 THEN ss[1]
    ELSE ss[1] \o sep \o Join(sep, Tail(ss))

StartsWith(s, p) == Len(s) >= Len(p) /\ SubSeq(s, 1, Len(p)) = p

\* s[a:] and s[a:-b] of Python, a and b counts of characters
DropFirst(s, a) == SubSeq(s, a + 1, Len(s))
Slice(s, a, b) == SubSeq(s, a + 1, Len(s) - b)

\* the k-th smallest member of a set of numbers
Nth(set, k) == CHOOSE i \in set : Cardinality({j \in set : j <= i}) = k

\* the least member of a non-empty set of numbers, the greatest
Min(set) == CHOOSE i \in set : \A j \in set : i <= j
Max(set) == CHOOSE i \in set : \A j \in set : i >= j

\* len(s.split('\n')) - 1
CountNewlines(s) == Cardinality({i \in DOMAIN s : s[i] = "\n"})

\* re.sub(r'\r\n?', '\n', code): a "\n" right after a "\r" goes, "\r" is "\n"
NormalizeNewlines(s) ==
    LET kept == {i \in DOMAIN s : ~(s[i] = "\n" /\ i > 1 /\ s[i - 1] = "\r")}
    IN  [k \in 1..Cardinality(kept) |->
            IF s[Nth(kept, k)] = "\r" THEN "\n" ELSE s[Nth(kept, k)]]

-----------------------------------------------------------------------------
(* The lexer: re.split on the directive pattern                            *)
(*   \{\{(?:[^"'}] | "(?:[^\\"]|\\.)*" | '(?:[^\\"]|\\.)*')*\}\}           *)
(* Each Match operator gives the position after the match that the         *)
(* backtracking matcher finds first, or 0 when there is none.              *)

\* Inside a quoted string that opened before j: whether the character at p
\* is the second half of an escape \. (an odd run of backslashes precedes it)
Escaped(s, j, p) ==
    LET stop == Max({j - 1} \cup {r \in j..(p - 1) : s[r] # "\\"})
    IN  (p - 1 - stop) % 2 = 1

\* a backslash that no "\\." can match: the last character, or before a newline
BadBackslash(s, p) == s[p] = "\\" /\ (p = Len(s) \/ s[p + 1] = "\n")

RECURSIVE MatchItems(_, _), MatchDouble(_, _), MatchSingle(_, _)

\* (?: item )* \}\}  from position i: plain characters up to the first quote
\* or brace; a brace must start "}}", a quote must open a quoted item
MatchItems(s, i) ==
    LET special == {p \in i..Len(s) : s[p] \in {"\"", "'", "}"}}
    IN  IF special = {} THEN 0
        ELSE LET p == Min(special)
             IN  IF s[p] = "\"" THEN MatchDouble(s, p + 1)
                 ELSE IF s[p] = "'" THEN MatchSingle(s, p + 1)
                 ELSE IF p + 1 <= Len(s) /\ s[p + 1] = "}" THEN p + 2
                 ELSE 0

\* (?:[^\\"]|\\.)*"  then the rest of the directive: the string closes at the
\* first double quote that is not escaped
MatchDouble(s, j) ==
    LET stops == {p \in j..Len(s) :
                    ~Escaped(s, j, p) /\ (s[p] = "\"" \/ BadBackslash(s, p))}
    IN  IF stops = {} THEN 0
        ELSE IF s[Min(stops)] = "\"" THEN MatchItems(s, Min(stops) + 1)
        ELSE 0

\* (?:[^\\"]|\\.)*'  then the rest: the class excludes the double quote, not
\* the single one, so a single quote is content first and the closing quote
\* only on backtracking: the string closes at the last single quote from
\* which the rest of the directive matches.
MatchSingle(s, j) ==
    LET stops == {p \in j..Len(s) :
                    ~Escaped(s, j, p) /\ (s[p] = "\"" \/ BadBackslash(s, p))}
        limit == IF stops = {} THEN Len(s) ELSE Min(stops) - 1
        closes == {k \in j..limit :
                     s[k] = "'" /\ ~Escaped(s, j, k) /\ MatchItems(s, k + 1) # 0}
    IN  IF closes = {} THEN 0 ELSE MatchItems(s, Max(closes) + 1)

MatchDirective(s, i) ==
    IF i + 1 <= Len(s) /\ s[i] = "{" /\ s[i + 1] = "{" THEN MatchItems(s, i + 2) ELSE 0

\* re.split with one capturing group: text, directive, text, ..., text
RECURSIVE SplitFrom(_, _)
SplitFrom(s, start) ==
    LET found == {i \in start..Len(s) : MatchDirective(s, i) # 0}
    IN  IF found = {} THEN <<SubSeq(s, start, Len(s))>>
        ELSE LET i == Min(found)
                 e == MatchDirective(s, i)
             IN  <<SubSeq(s, start, i - 1), SubSeq(s, i, e - 1)>> \o SplitFrom(s, e)

Tokenize(c) == SplitFrom(c, 1)

\* lines[k]: the line on which token k starts, with one more entry for the
\* end of input; computed before the trailing white-space is trimmed.
TokenLines(toks) ==
    [k \in 1..(Len(toks) + 1) |->
        Cardinality({<<t, i>> \in (1..(k - 1)) \X (1..Len(Concat(toks))) :
                        i \in DOMAIN toks[t] /\ toks[t][i] = "\n"})]

\* while len(tokens) and not tokens[-1].strip(): tokens = tokens[:-1]
TrimTrailing(toks) ==
    LET solid == {k \in DOMAIN toks : ~IsBlank(toks[k])}
    IN  IF solid = {} THEN <<>> ELSE SubSeq(toks, 1, Max(solid))

-----------------------------------------------------------------------------
(* Nodes, failures *)

NoNode == [kind |-> "None"]

TextNode(line, text) ==
    [kind |-> "TextNode", src |-> SrcName, line |-> line, text |-> text]

InterpolationNode(line, expr) ==
    [kind |-> "InterpolationNode", src |-> SrcName, line |-> line, expr |-> expr]

ReferenceNode(line, properties) ==
    [kind |-> "ReferenceNode", src |-> SrcName, line |-> line, properties |-> properties]

CallNode(line, fname, args) ==
    [kind |-> "CallNode", src |-> SrcName, line |-> line, name |-> fname, args |-> args]

StrLitNode(line, value) ==
    [kind |-> "StrLitNode", src |-> SrcName, line |-> line, value |-> value]

TemplateNode(line, nameExpr, expr) ==
    [kind |-> "TemplateNode", src |-> SrcName, line |-> line, name |-> nameExpr,
     expr |-> expr]

\* IfNode, RangeNode, WithNode: kind is the class, name the keyword
BlockNode(kind, line, expr, body, else_clause) ==
    [kind |-> kind, src |-> SrcName, line |-> line,
     name |-> (IF kind = "IfNode" THEN <<"i","f">>
               ELSE IF kind = "RangeNode" THEN <<"r","a","n","g","e">>
               ELSE <<"w","i","t","h">>),
     expr |-> expr, body |-> body, else_clause |-> else_clause]

ListNode(line, elements) ==
    [kind |-> "ListNode", src |-> SrcName, line |-> line, elements |-> elements]

ExprKinds == {"ReferenceNode", "CallNode", "StrLitNode"}
BlockKinds == {"IfNode", "RangeNode", "WithNode"}

\* fail(): raise Exception('%s:%s: %s' % (src, line, msg))
Fail(line, msg) ==
    [ok |-> FALSE, exc |-> "Exception", src |-> SrcName, line |-> line, msg |-> msg]

\* an exception Python itself raises: it names neither the source nor a line
Raise(exc) ==
    [ok |-> FALSE, exc |-> exc, src |-> <<>>, line |-> -1, msg |-> exc]

-----------------------------------------------------------------------------
(* The expression parser: parse_expr_prefix *)

EBreaking == {"\t", "\n", "\r", " ", "'", "\"", "(", ")", "|", ","}
EWhite == {"\t", "\n", "\r", " "}
EPunct == {"(", ")", "|", ","}

\* the position after the longest run from i of characters whose membership
\* in set is member
RunEnd(s, i, set, member) ==
    LET breaks == {p \in i..Len(s) : (s[p] \in set) # member}
    IN  IF breaks = {} THEN Len(s) + 1 ELSE Min(breaks)

\* length of the quoted token at i, q(?:[^\\q]|\\.)q, or 0: the pattern has no
\* repetition, so a literal holds one character or one escape.
QuotedLen(s, i) ==
    LET q == s[i]
    IN  IF i + 2 <= Len(s) /\ s[i + 1] \notin {"\\", q} /\ s[i + 2] = q THEN 3
        ELSE IF i + 3 <= Len(s) /\ s[i + 1] = "\\" /\ s[i + 2] # "\n" /\ s[i + 3] = q
             THEN 4
        ELSE 0

\* re.findall: a character at which no alternative matches is skipped
RECURSIVE ETokensFrom(_, _)
ETokensFrom(s, i) ==
    IF i > Len(s) THEN <<>>
    ELSE IF s[i] \notin EBreaking
         THEN LET e == RunEnd(s, i, EBreaking, FALSE)
              IN  <<SubSeq(s, i, e - 1)>> \o ETokensFrom(s, e)
    ELSE IF s[i] \in EWhite
         THEN LET e == RunEnd(s, i, EWhite, TRUE)
              IN  <<SubSeq(s, i, e - 1)>> \o ETokensFrom(s, e)
    ELSE IF s[i] \in EPunct THEN <<<<s[i]>>>> \o ETokensFrom(s, i + 1)
    ELSE LET n == QuotedLen(s, i)
         IN  IF n # 0 THEN <<SubSeq(s, i, i + n - 1)>> \o ETokensFrom(s, i + n)
             ELSE ETokensFrom(s, i + 1)

ETokens(expr_text) == ETokensFrom(expr_text, 1)

\* skip_ignorable: past the white-space tokens, counting their newlines;
\* the position reached and the line there
RECURSIVE SkipIgnorable(_, _, _)
SkipIgnorable(et, epos, line) ==
    IF epos <= Len(et) /\ IsBlank(et[epos])
    THEN SkipIgnorable(et, epos + 1, line + CountNewlines(et[epos]))
    ELSE [epos |-> epos, line |-> line]

\* expect of parse_expr_prefix: it compares the expected text with tokens[epos],
\* the template's token at that index, not with etokens[epos].
ExpectE(et, toks, epos, token, line) ==
    IF epos = Len(et) + 1 THEN Fail(line, "Expected token at end of input")
    ELSE IF epos > Len(toks) THEN Raise("IndexError")
    ELSE IF toks[epos] # token THEN Fail(line, "Expected token, got other")
    ELSE [ok |-> TRUE, epos |-> epos + 1]

\* ^[A-Za-z][A-Za-z0-9]*$
IsName(etok) ==
    /\ etok # <<>>
    /\ etok[1] \in Letters
    /\ \A i \in 2..Len(etok) :
          \/ etok[i] \in Letters \cup Digits
          \/ i = Len(etok) /\ etok[i] = "\n"

ParseName(et, epos0, line0) ==
    LET named(sk) ==
            IF sk.epos = Len(et) + 1 THEN Fail(sk.line, "missing function name")
            ELSE IF sk.epos > Len(et) THEN Raise("IndexError")
            ELSE IF ~IsName(et[sk.epos]) THEN Fail(sk.line, "expected function name")
            ELSE [ok |-> TRUE, name |-> et[sk.epos], epos |-> sk.epos + 1,
                  line |-> sk.line]
    IN  named(SkipIgnorable(et, epos0, line0))

\* str.decode('string_escape') of the one escape \c a literal can hold
EscapeTable ==
    [c \in {"\\", "'", "\"", "a", "b", "f", "n", "r", "t", "v",
            "0", "1", "2", "3", "4", "5", "6", "7"} |->
        CASE c = "\\" -> "\\"
          [] c = "'" -> "'"
          [] c = "\"" -> "\""
          [] c = "a" -> "<BEL>"
          [] c = "b" -> "<BS>"
          [] c = "f" -> "\f"
          [] c = "n" -> "\n"
          [] c = "r" -> "\r"
          [] c = "t" -> "\t"
          [] c = "v" -> "<VT>"
          [] c = "0" -> "<NUL>"
          [] c = "1" -> "<SOH>"
          [] c = "2" -> "<STX>"
          [] c = "3" -> "<ETX>"
          [] c = "4" -> "<EOT>"
          [] c = "5" -> "<ENQ>"
          [] c = "6" -> "<ACK>"
          [] c = "7" -> "<BEL>"]

\* unescape(str_lit): str_lit[1:-1] decoded, or fail('invalid string literal')
Unescape(str_lit, line) ==
    LET inner == Slice(str_lit, 1, 1)
    IN  IF Len(inner) = 2 /\ inner[1] = "\\"
        THEN IF inner[2] = "x" THEN Fail(line, "invalid string literal")
             ELSE IF inner[2] \in DOMAIN EscapeTable
                  THEN [ok |-> TRUE, value |-> <<EscapeTable[inner[2]]>>]
             ELSE [ok |-> TRUE, value |-> inner]
        ELSE [ok |-> TRUE, value |-> inner]

\* 'x'.split('.') of the one character etoken[1]
SplitOneChar(c) == IF c = "." THEN << <<>>, <<>> >> ELSE << <<c>> >>

RECURSIVE ParsePipeline(_, _, _, _), ParseExprAtom(_, _, _, _),
          PipeLoop(_, _, _, _), ArgsLoop(_, _, _, _, _)

\* parse_pipeline: an atom, then "| name" suffixes
ParsePipeline(et, toks, epos0, line0) ==
    LET suffixes(a) ==
            IF ~a.ok THEN a
            ELSE PipeLoop(et, toks, a.node, SkipIgnorable(et, a.epos, a.line))
    IN  suffixes(ParseExprAtom(et, toks, epos0, line0))

\* the while loop of parse_pipeline, entered at the position sk
PipeLoop(et, toks, expr, sk) ==
    IF sk.epos <= Len(et) /\ et[sk.epos] = <<"|">>
    THEN LET piped(right) ==
                 IF ~right.ok THEN right
                 ELSE PipeLoop(et, toks, CallNode(expr.line, right.name, <<expr>>),
                               SkipIgnorable(et, right.epos, right.line))
         IN  piped(ParseName(et, sk.epos + 1, sk.line))
    ELSE [ok |-> TRUE, node |-> expr, epos |-> sk.epos, line |-> sk.line]

\* the argument loop of a call: pipelines separated by commas
ArgsLoop(et, toks, args, epos, line) ==
    LET each(arg) ==
            IF ~arg.ok THEN arg
            ELSE LET after(sk) ==
                         IF sk.epos = Len(et) + 1
                         THEN [ok |-> TRUE, args |-> Append(args, arg.node),
                               epos |-> sk.epos, line |-> sk.line]
                         ELSE IF sk.epos > Len(et) THEN Raise("IndexError")
                         ELSE IF et[sk.epos] # <<",">>
                         THEN [ok |-> TRUE, args |-> Append(args, arg.node),
                               epos |-> sk.epos, line |-> sk.line]
                         ELSE ArgsLoop(et, toks, Append(args, arg.node),
                                       sk.epos + 1, sk.line)
                 IN  after(SkipIgnorable(et, arg.epos, arg.line))
    IN  each(ParsePipeline(et, toks, epos, line))

\* the function-call branch of parse_atom, n the parsed function name
ParseCall(et, toks, line, n) ==
    LET closed(args, close) ==
            IF ~close.ok THEN close
            ELSE [ok |-> TRUE, node |-> CallNode(line, n.name, args.args),
                  epos |-> close.epos, line |-> args.line]
        called(args) ==
            IF ~args.ok THEN args
            ELSE closed(args, ExpectE(et, toks, args.epos, <<")">>, args.line))
        arguments(s2) ==
            called(IF s2.epos <= Len(et) /\ et[s2.epos] # <<")">>
                   THEN ArgsLoop(et, toks, <<>>, s2.epos, s2.line)
                   ELSE [ok |-> TRUE, args |-> <<>>, epos |-> s2.epos, line |-> s2.line])
        opened(s1, open) ==
            IF ~open.ok THEN open
            ELSE arguments(SkipIgnorable(et, open.epos + 1, s1.line))
        spaced(s1) == opened(s1, ExpectE(et, toks, s1.epos, <<"(">>, s1.line))
    IN  IF ~n.ok THEN n ELSE spaced(SkipIgnorable(et, n.epos, n.line))

\* the string-literal branch of parse_atom
ParseLiteral(etoken, epos, line) ==
    LET lit(u) ==
            IF ~u.ok THEN u
            ELSE [ok |-> TRUE, node |-> StrLitNode(line, u.value),
                  epos |-> epos + 1, line |-> line]
    IN  lit(Unescape(etoken, line))

\* parse_atom of parse_expr_prefix: reference, string literal or call
ParseExprAtom(et, toks, epos0, line0) ==
    LET atom(sk) ==
            IF sk.epos = Len(et) + 1 THEN Fail(sk.line, "missing expression part")
            ELSE IF sk.epos > Len(et) THEN Raise("IndexError")
            ELSE IF et[sk.epos][1] = "."
            THEN \* etoken[1].split('.'): the one character after the dot
                 IF Len(et[sk.epos]) < 2 THEN Raise("IndexError")
                 ELSE [ok |-> TRUE,
                       node |-> ReferenceNode(sk.line, SplitOneChar(et[sk.epos][2])),
                       epos |-> sk.epos + 1, line |-> sk.line]
            ELSE IF et[sk.epos][1] \in {"\"", "'"}
            THEN ParseLiteral(et[sk.epos], sk.epos, sk.line)
            ELSE \* Assume a function call.
                 ParseCall(et, toks, sk.line, ParseName(et, sk.epos, sk.line))
    IN  atom(SkipIgnorable(et, epos0, line0))

\* parse_expr_prefix(line, expr_text): the expression and the unconsumed text
ParseExprPrefix(toks, line, expr_text) ==
    LET rest(et, sk) == Concat(SubSeq(et, sk.epos, Len(et)))
        parsed(et, p) ==
            IF ~p.ok THEN p
            ELSE [ok |-> TRUE, node |-> p.node,
                  remainder |-> rest(et, SkipIgnorable(et, p.epos, p.line))]
        tokenized(et) == parsed(et, ParsePipeline(et, toks, 1, line))
    IN  tokenized(ETokens(expr_text))

-----------------------------------------------------------------------------
(* The block parser of parse_templates.  ctx holds what the inner functions *)
(* close over: ctx.toks, the trimmed tokens, and ctx.lines.                *)

KwIf == <<"i","f">>
KwRange == <<"r","a","n","g","e">>
KwWith == <<"w","i","t","h">>
KwTemplate == <<"t","e","m","p","l","a","t","e">>
KwEnd == <<"e","n","d">>
KwElse == <<"e","l","s","e">>
Keywords == <<KwIf, KwRange, KwWith, KwTemplate, KwEnd, KwElse>>

TokEnd == <<"{","{","e","n","d","}","}">>
TokElse == <<"{","{","e","l","s","e","}","}">>
DefinePrefix == <<"{","{","d","e","f","i","n","e">>

\* ^\{\{(?:(if|range|with|template|end|else)\b)?(.*)\}\}$
\* "." matches no newline and "$" matches at the end or before a last newline.
\* [matched, keyword (group 1, <<>> when absent), rest (group 2)]
MatchStatement(token) ==
    LET tail == IF token # <<>> /\ token[Len(token)] = "\n" THEN 1 ELSE 0
        n == Len(token) - tail
        shaped == /\ n >= 4
                  /\ token[1] = "{" /\ token[2] = "{"
                  /\ token[n - 1] = "}" /\ token[n] = "}"
        inner == SubSeq(token, 3, n - 2)
        isKw(k) == /\ StartsWith(inner, Keywords[k])
                   /\ (inner \o <<"}">>)[Len(Keywords[k]) + 1] \notin WordChars
        found == {k \in DOMAIN Keywords : isKw(k)}
    IN  IF ~shaped \/ (\E i \in DOMAIN inner : inner[i] = "\n")
        THEN [matched |-> FALSE, keyword |-> <<>>, rest |-> <<>>]
        ELSE IF found = {}
        THEN [matched |-> TRUE, keyword |-> <<>>, rest |-> inner]
        ELSE LET k == CHOOSE k \in found : \A j \in found : k <= j
             IN  [matched |-> TRUE, keyword |-> Keywords[k],
                  rest |-> DropFirst(inner, Len(Keywords[k]))]

\* expect of parse_templates
Expect(ctx, pos, token) ==
    IF pos = Len(ctx.toks) + 1 THEN Fail(ctx.lines[pos], "Expected token at end of input")
    ELSE IF ctx.toks[pos] # token THEN Fail(ctx.lines[pos], "Expected token, got other")
    ELSE [ok |-> TRUE, pos |-> pos + 1]

\* parse_expr(pos, expr_text)
ParseExpr(ctx, pos, expr_text) ==
    LET whole(p) ==
            IF ~p.ok THEN p
            ELSE IF p.remainder # <<>>
            THEN Fail(ctx.lines[pos], "Trailing content in expression")
            ELSE [ok |-> TRUE, node |-> p.node]
    IN  whole(ParseExprPrefix(ctx.toks, ctx.lines[pos], expr_text))

RECURSIVE ParseList(_, _), ListLoop(_, _, _), ParseAtom(_, _), ParseBlock(_, _, _, _)

\* parse_list: statements up to {{end}}, {{else}} or the end of input; one
\* statement stands for itself, any other number is a ListNode
ParseList(ctx, pos) ==
    LET listed(r) ==
            IF ~r.ok THEN r
            ELSE IF Len(r.children) = 1
            THEN [ok |-> TRUE, node |-> r.children[1], pos |-> r.pos]
            ELSE [ok |-> TRUE, node |-> ListNode(ctx.lines[pos], r.children),
                  pos |-> r.pos]
    IN  listed(ListLoop(ctx, pos, <<>>))

\* the while loop of parse_list
ListLoop(ctx, pos, children) ==
    IF pos <= Len(ctx.toks)
    THEN LET added(a) ==
                 IF ~a.ok THEN a
                 ELSE IF a.node = NoNode
                 THEN [ok |-> TRUE, children |-> children, pos |-> a.pos]
                 ELSE ListLoop(ctx, a.pos, Append(children, a.node))
         IN  added(ParseAtom(ctx, pos))
    ELSE [ok |-> TRUE, children |-> children, pos |-> pos]

\* the {{template NAME EXPR?}} branch of parse_atom, nm the parsed name prefix
ParseTemplateCall(ctx, pos, nm) ==
    LET applied(e) ==
            IF ~e.ok THEN e
            ELSE [ok |-> TRUE, node |-> TemplateNode(ctx.lines[pos], nm.node, e.node),
                  pos |-> pos + 1]
    IN  IF ~nm.ok THEN nm
        ELSE IF ~IsBlank(nm.remainder)
        THEN applied(ParseExpr(ctx, pos, nm.remainder))
        ELSE [ok |-> TRUE, node |-> TemplateNode(ctx.lines[pos], nm.node, NoNode),
              pos |-> pos + 1]

\* parse_atom of parse_templates: one statement, or NoNode at {{end}} / {{else}}
ParseAtom(ctx, pos) ==
    LET interpolated(e) ==
            IF ~e.ok THEN e
            ELSE [ok |-> TRUE, node |-> InterpolationNode(ctx.lines[pos], e.node),
                  pos |-> pos + 1]
        block(keyword, e) ==
            IF ~e.ok THEN e ELSE ParseBlock(ctx, keyword, pos, e.node)
        statement(token, m) ==
            IF ~m.matched
            THEN [ok |-> TRUE, node |-> TextNode(ctx.lines[pos], token), pos |-> pos + 1]
            ELSE IF m.keyword = <<>>
            THEN interpolated(ParseExpr(ctx, pos, Slice(token, 2, 2)))
            ELSE IF m.keyword \in {KwEnd, KwElse}
            THEN [ok |-> TRUE, node |-> NoNode, pos |-> pos]
            ELSE IF m.keyword = KwTemplate
            THEN ParseTemplateCall(ctx, pos,
                                   ParseExprPrefix(ctx.toks, ctx.lines[pos], m.rest))
            ELSE block(m.keyword, ParseExpr(ctx, pos, m.rest))
    IN  IF pos = Len(ctx.toks) + 1
        THEN Raise("TypeError")   \* "return None" is unpacked into (atom, pos)
        ELSE statement(ctx.toks[pos], MatchStatement(ctx.toks[pos]))

\* parse_block: body, optional {{else}} clause, {{end}}
ParseBlock(ctx, keyword, pos, expr) ==
    LET ctor == IF keyword = KwIf THEN "IfNode"
                ELSE IF keyword = KwRange THEN "RangeNode"
                ELSE "WithNode"
        ended(body, els, e) ==
            IF ~e.ok THEN e
            ELSE [ok |-> TRUE,
                  node |-> BlockNode(ctor, ctx.lines[pos], expr, body.node, els.node),
                  pos |-> e.pos]
        closed(body, els) ==
            IF ~els.ok THEN els ELSE ended(body, els, Expect(ctx, els.pos, TokEnd))
        parsed(body) ==
            IF ~body.ok THEN body
            ELSE closed(body,
                        IF body.pos <= Len(ctx.toks) /\ ctx.toks[body.pos] = TokElse
                        THEN ParseList(ctx, body.pos + 1)
                        ELSE [ok |-> TRUE, node |-> NoNode, pos |-> body.pos])
    IN  parsed(ParseList(ctx, pos + 1))

NoTemplates == [n \in {} |-> NoNode]

\* define(name, pos): env.templates[name] = body, or 'Redefinition'
Define(ctx, templates, tname, pos) ==
    LET defined(body) ==
            IF ~body.ok THEN body
            ELSE IF tname \in DOMAIN templates
            THEN Fail(ctx.lines[body.pos], "Redefinition")
            ELSE [ok |-> TRUE, templates |-> templates @@ (tname :> body.node),
                  pos |-> body.pos]
    IN  defined(ParseList(ctx, pos))

\* expr.execute(Env(None, {}, {})): every execute method is declared
\* execute(self, env, out), so the call with env alone raises TypeError
\* before any method body runs.
ExecuteWithoutOut(expr) == Raise("TypeError")

\* parse_define: {{define NAME}} body {{end}}
ParseDefine(ctx, templates, pos) ==
    LET ended(d, x) ==
            IF ~x.ok THEN x
            ELSE [ok |-> TRUE, templates |-> d.templates, pos |-> x.pos]
        defined(d) ==
            IF ~d.ok THEN d ELSE ended(d, Expect(ctx, d.pos, TokEnd))
        named(nm) ==
            IF ~nm.ok THEN nm
            ELSE IF nm.value = [t |-> "none"]
            THEN Fail(ctx.lines[pos], "expected name as quoted string")
            ELSE defined(Define(ctx, templates, nm.value.v, pos + 1))
        header(e) ==
            IF ~e.ok THEN e ELSE named(ExecuteWithoutOut(e.node))
    IN  header(ParseExpr(ctx, pos, Slice(ctx.toks[pos], Len(DefinePrefix), 2)))

RECURSIVE TopLoop(_, _, _)

\* the top-level loop without its skip of blank tokens
TopLoopKeepsBlank(ctx, templates, pos) ==
    IF pos <= Len(ctx.toks) /\ StartsWith(ctx.toks[pos], DefinePrefix)
    THEN LET next(d) == IF ~d.ok THEN d ELSE TopLoop(ctx, d.templates, d.pos)
         IN  next(ParseDefine(ctx, templates, pos))
    ELSE [ok |-> TRUE, templates |-> templates, pos |-> pos]

\* the top-level loop: blank tokens are skipped, {{define ...}} blocks parsed
TopLoop(ctx, templates, pos) ==
    IF pos <= Len(ctx.toks)
    THEN IF IsBlank(ctx.toks[pos]) THEN TopLoop(ctx, templates, pos + 1)
         ELSE IF StartsWith(ctx.toks[pos], DefinePrefix)
         THEN LET next(d) == IF ~d.ok THEN d ELSE TopLoop(ctx, d.templates, d.pos)
              IN  next(ParseDefine(ctx, templates, pos))
         ELSE [ok |-> TRUE, templates |-> templates, pos |-> pos]
    ELSE [ok |-> TRUE, templates |-> templates, pos |-> pos]

NoName == [given |-> FALSE, text |-> <<>>]
Named(text) == [given |-> TRUE, text |-> text]

\* parse_templates(src, code, name): [ok |-> TRUE, templates] for the Env
\* returned (its data is None, its fns _BUILTINS), or the failure raised
ParseTemplates(c, nm) ==
    LET finished(ctx, ext) ==
            IF ~ext.ok THEN ext
            ELSE IF ext.pos <= Len(ctx.toks)
            THEN Fail(ctx.lines[ext.pos], "unparsed content")
            ELSE [ok |-> TRUE, templates |-> ext.templates]
        external(ctx, top) ==
            IF ~top.ok THEN top
            ELSE finished(ctx, IF top.pos <= Len(ctx.toks) /\ nm.given
                               THEN Define(ctx, top.templates, nm.text, top.pos)
                               ELSE top)
        lexed(ctx) == external(ctx, TopLoop(ctx, NoTemplates, 1))
        split(all) == lexed([toks |-> TrimTrailing(all), lines |-> TokenLines(all)])
    IN  split(Tokenize(NormalizeNewlines(c)))

-----------------------------------------------------------------------------
(* Data values: None, str, int, list (ordered sequence), dict (mapping from *)
(* property name to value)                                                 *)

VNone == [t |-> "none"]
VStr(s) == [t |-> "str", v |-> s]
VInt(n) == [t |-> "int", v |-> n]
VList(xs) == [t |-> "list", v |-> xs]
VDict(f) == [t |-> "dict", v |-> f]

\* bool(value), as "if value:" tests it
Truthy(value) ==
    CASE value.t = "none" -> FALSE
      [] value.t = "str" -> value.v # <<>>
      [] value.t = "int" -> value.v # 0
      [] value.t = "list" -> value.v # <<>>
      [] value.t = "dict" -> DOMAIN value.v # {}

DigitChars == <<"0","1","2","3","4","5","6","7","8","9">>

\* str(n) of an int
RECURSIVE IntStr(_)
IntStr(n) ==
    IF n < 0 THEN <<"-">> \o IntStr(0 - n)
    ELSE IF n < 10 THEN <<DigitChars[n + 1]>>
    ELSE IntStr(n \div 10) \o <<DigitChars[(n % 10) + 1]>>

\* repr(s) of a str: single quotes unless s holds one and no double quote
StrRepr(s) ==
    LET q == IF (\E i \in DOMAIN s : s[i] = "'") /\ ~(\E i \in DOMAIN s : s[i] = "\"")
             THEN "\"" ELSE "'"
        esc(c) == CASE c = "\\" -> <<"\\", "\\">>
                    [] c = q -> <<"\\", q>>
                    [] c = "\n" -> <<"\\", "n">>
                    [] c = "\t" -> <<"\\", "t">>
                    [] c = "\r" -> <<"\\", "r">>
                    [] OTHER -> <<c>>
    IN  <<q>> \o Concat([i \in DOMAIN s |-> esc(s[i])]) \o <<q>>

\* the keys of a dict in the order iteration gives them: the order of the
\* hash table, which one key does not leave open
KeyOrder(f) ==
    LET keys == DOMAIN f
    IN  CHOOSE order \in [1..Cardinality(keys) -> keys] :
            \A i, j \in DOMAIN order : i # j => order[i] # order[j]

RECURSIVE PyRepr(_)
PyRepr(value) ==
    CASE value.t = "none" -> <<"N","o","n","e">>
      [] value.t = "str" -> StrRepr(value.v)
      [] value.t = "int" -> IntStr(value.v)
      [] value.t = "list" ->
            <<"[">> \o Join(<<",", " ">>, [i \in DOMAIN value.v |-> PyRepr(value.v[i])])
                    \o <<"]">>
      [] value.t = "dict" ->
            LET items(order) ==
                    <<"{">> \o Join(<<",", " ">>,
                                    [i \in DOMAIN order |->
                                        StrRepr(order[i]) \o <<":", " ">>
                                            \o PyRepr(value.v[order[i]])])
                            \o <<"}">>
            IN  items(KeyOrder(value.v))

\* str(value)
PyStr(value) == IF value.t = "str" THEN value.v ELSE PyRepr(value)

\* escaping.escape_html, the function escape registers as 'html'
EscapeHtml(value) ==
    LET s == PyStr(value)
        esc(c) == CASE c = "&" -> <<"&","a","m","p",";">>
                    [] c = "<" -> <<"&","l","t",";">>
                    [] c = ">" -> <<"&","g","t",";">>
                    [] c = "\"" -> <<"&","#","3","4",";">>
                    [] c = "'" -> <<"&","#","3","9",";">>
                    [] OTHER -> <<c>>
    IN  VStr(Concat([i \in DOMAIN s |-> esc(s[i])]))

Html == <<"h","t","m","l">>

-----------------------------------------------------------------------------
(* Env and execution.  An Env is [data, fns, templates]; fns and templates *)
(* are the objects every derived Env shares.                               *)

Env(data, registry, templates) ==
    [data |-> data, fns |-> registry, templates |-> templates]

\* Env.with_data
WithData(e, data) == Env(data, e.fns, e.templates)

\* ReferenceNode.execute: the property walk, stopping at None
RECURSIVE Lookup(_, _)
Lookup(data, properties) ==
    IF properties = <<>> THEN [ok |-> TRUE, value |-> data]
    ELSE IF data = VNone THEN [ok |-> TRUE, value |-> data]
    ELSE IF data.t # "dict" THEN Raise("AttributeError")   \* no .get
    ELSE Lookup(IF Head(properties) \in DOMAIN data.v THEN data.v[Head(properties)]
                ELSE VNone,
                Tail(properties))

\* execute of the expression nodes: [ok |-> TRUE, value] or the exception
RECURSIVE EvalExpr(_, _), EvalArgs(_, _, _)

\* CallNode.execute: env.fns[name](*args); the one function a registry can
\* hold is the escaper escape registers as 'html'
CallExecute(n, e) ==
    LET applied(args) ==
            IF ~args.ok THEN args
            ELSE IF n.name = Html /\ Len(args.values) = 1
            THEN [ok |-> TRUE, value |-> EscapeHtml(args.values[1])]
            ELSE Raise("TypeError")
    IN  IF n.name \notin e.fns THEN Raise("KeyError")
        ELSE applied(EvalArgs(n.args, e, <<>>))

EvalExpr(n, e) ==
    CASE n.kind = "ReferenceNode" -> Lookup(e.data, n.properties)
      [] n.kind = "StrLitNode" -> [ok |-> TRUE, value |-> VStr(n.value)]
      [] n.kind = "CallNode" -> CallExecute(n, e)

EvalArgs(args, e, done) ==
    LET next(v) ==
            IF ~v.ok THEN v ELSE EvalArgs(Tail(args), e, Append(done, v.value))
    IN  IF args = <<>> THEN [ok |-> TRUE, values |-> done]
        ELSE next(EvalExpr(Head(args), e))

\* what "for value in iterable" yields, for a truthy iterable
Iterate(value) ==
    LET keys(order) == [ok |-> TRUE, values |-> [i \in DOMAIN order |-> VStr(order[i])]]
    IN  CASE value.t = "list" -> [ok |-> TRUE, values |-> value.v]
          [] value.t = "dict" -> keys(KeyOrder(value.v))
          [] value.t = "str" -> [ok |-> TRUE, values |-> [i \in DOMAIN value.v |->
                                                             VStr(<<value.v[i]>>)]]
          [] OTHER -> Raise("TypeError")

\* execute of the statement nodes: out is what the sink holds; the result is
\* [ok |-> TRUE, out] or the exception with the sink as it was left
RECURSIVE Execute(_, _, _), ExecuteAll(_, _, _), ExecuteEach(_, _, _, _)

Raised(r, out) == [ok |-> FALSE, exc |-> r.exc, out |-> out]

\* the else branch the three block nodes share: elif self.else_clause
ElseExecute(n, e, out) ==
    IF n.else_clause # NoNode THEN Execute(n.else_clause, e, out)
    ELSE [ok |-> TRUE, out |-> out]

\* InterpolationNode.execute: None writes nothing
InterpolationExecute(n, e, out) ==
    LET written(v) ==
            IF ~v.ok THEN Raised(v, out)
            ELSE IF v.value = VNone THEN [ok |-> TRUE, out |-> out]
            ELSE [ok |-> TRUE, out |-> out \o PyStr(v.value)]
    IN  written(EvalExpr(n.expr, e))

\* TemplateNode.execute
TemplateExecute(n, e, out) ==
    LET called(nm, d) ==
            IF ~d.ok THEN Raised(d, out)
            ELSE IF nm.value.v \notin DOMAIN e.templates
            THEN Raised(Raise("KeyError"), out)
            ELSE Execute(e.templates[nm.value.v], WithData(e, d.value), out)
        named(nm) ==
            IF ~nm.ok THEN Raised(nm, out)
            ELSE called(nm, IF n.expr # NoNode THEN EvalExpr(n.expr, e)
                            ELSE [ok |-> TRUE, value |-> e.data])
    IN  named(ExecuteWithoutOut(n.name))

\* WithNode.execute
WithExecute(n, e, out) ==
    LET bound(v) ==
            IF ~v.ok THEN Raised(v, out)
            ELSE IF Truthy(v.value) THEN Execute(n.body, WithData(e, v.value), out)
            ELSE ElseExecute(n, e, out)
    IN  bound(EvalExpr(n.expr, e))

\* IfNode.execute with the test "is not None" in place of truthiness
IfExecuteNotNone(n, e, out) ==
    LET tested(v) ==
            IF ~v.ok THEN Raised(v, out)
            ELSE IF v.value # VNone THEN Execute(n.body, e, out)
            ELSE ElseExecute(n, e, out)
    IN  tested(EvalExpr(n.expr, e))

\* IfNode.execute
IfExecute(n, e, out) ==
    LET tested(v) ==
            IF ~v.ok THEN Raised(v, out)
            ELSE IF Truthy(v.value) THEN Execute(n.body, e, out)
            ELSE ElseExecute(n, e, out)
    IN  tested(EvalExpr(n.expr, e))

\* RangeNode.execute with the body run in env itself, once per value
RangeExecuteUnbound(n, e, out) ==
    LET looped(it) ==
            IF ~it.ok THEN Raised(it, out)
            ELSE ExecuteEach(n.body, e, [i \in DOMAIN it.values |-> e.data], out)
        ranged(v) ==
            IF ~v.ok THEN Raised(v, out)
            ELSE IF Truthy(v.value) THEN looped(Iterate(v.value))
            ELSE ElseExecute(n, e, out)
    IN  ranged(EvalExpr(n.expr, e))

\* RangeNode.execute
RangeExecute(n, e, out) ==
    LET looped(it) ==
            IF ~it.ok THEN Raised(it, out) ELSE ExecuteEach(n.body, e, it.values, out)
        ranged(v) ==
            IF ~v.ok THEN Raised(v, out)
            ELSE IF Truthy(v.value) THEN looped(Iterate(v.value))
            ELSE ElseExecute(n, e, out)
    IN  ranged(EvalExpr(n.expr, e))

Execute(n, e, out) ==
    CASE n.kind = "TextNode" -> [ok |-> TRUE, out |-> out \o n.text]
      [] n.kind = "InterpolationNode" -> InterpolationExecute(n, e, out)
      [] n.kind = "TemplateNode" -> TemplateExecute(n, e, out)
      [] n.kind = "WithNode" -> WithExecute(n, e, out)
      [] n.kind = "IfNode" -> IfExecute(n, e, out)
      [] n.kind = "RangeNode" -> RangeExecute(n, e, out)
      [] n.kind = "ListNode" -> ExecuteAll(n.elements, e, out)

\* ListNode.execute: the children in order
ExecuteAll(elements, e, out) ==
    LET next(r) == IF ~r.ok THEN r ELSE ExecuteAll(Tail(elements), e, r.out)
    IN  IF elements = <<>> THEN [ok |-> TRUE, out |-> out]
        ELSE next(Execute(Head(elements), e, out))

\* the loop of RangeNode.execute: the body once per value, data rebound
ExecuteEach(body, e, values, out) ==
    LET next(r) == IF ~r.ok THEN r ELSE ExecuteEach(body, e, Tail(values), r.out)
    IN  IF values = <<>> THEN [ok |-> TRUE, out |-> out]
        ELSE next(Execute(body, WithData(e, Head(values)), out))

\* Env.execute(name, out) / Env.sexecute(name) on a fresh sink
EnvExecute(e, tname, out) ==
    IF tname \notin DOMAIN e.templates THEN [ok |-> FALSE, exc |-> "KeyError", out |-> out]
    ELSE Execute(e.templates[tname], e, out)

-----------------------------------------------------------------------------
(* children, with_children, clone, __str__ *)

Children(n) ==
    CASE n.kind = "TextNode" -> <<>>
      [] n.kind = "InterpolationNode" -> <<n.expr>>
      [] n.kind = "ReferenceNode" -> <<>>
      [] n.kind = "CallNode" -> n.args
      [] n.kind = "StrLitNode" -> <<>>
      [] n.kind = "TemplateNode" ->
            IF n.expr # NoNode THEN <<n.name, n.expr>> ELSE <<n.name>>
      [] n.kind \in BlockKinds ->
            IF n.else_clause # NoNode THEN <<n.expr, n.body, n.else_clause>>
            ELSE <<n.expr, n.body>>
      [] n.kind = "ListNode" -> n.elements

RECURSIVE Clone(_)

\* TemplateNode.with_children: children[0] is read into a local that is not
\* used; the node built holds a clone of the name it already had.
TemplateWithChildren(n, cs) ==
    IF Len(cs) > 2 THEN Raise("AssertionError")
    ELSE IF Len(cs) = 0 THEN Raise("IndexError")
    ELSE [ok |-> TRUE,
          node |-> TemplateNode(n.line, Clone(n.name),
                                IF Len(cs) = 2 THEN cs[2] ELSE NoNode)]

BlockWithChildren(n, cs) ==
    IF Len(cs) < 2 THEN Raise("IndexError")
    ELSE IF Len(cs) > 3 THEN Raise("AssertionError")
    ELSE [ok |-> TRUE,
          node |-> BlockNode(n.kind, n.line, cs[1], cs[2],
                             IF Len(cs) = 3 THEN cs[3] ELSE NoNode)]

\* with_children(children): [ok |-> TRUE, node] or the exception
WithChildren(n, cs) ==
    CASE n.kind = "TextNode" ->
            IF Len(cs) # 0 THEN Raise("AssertionError")
            ELSE [ok |-> TRUE, node |-> TextNode(n.line, n.text)]
      [] n.kind = "InterpolationNode" ->
            IF Len(cs) # 1 THEN Raise("AssertionError")
            ELSE [ok |-> TRUE, node |-> InterpolationNode(n.line, cs[1])]
      [] n.kind = "ReferenceNode" ->
            IF Len(cs) # 0 THEN Raise("AssertionError")
            ELSE [ok |-> TRUE, node |-> ReferenceNode(n.line, n.properties)]
      [] n.kind = "CallNode" -> [ok |-> TRUE, node |-> CallNode(n.line, n.name, cs)]
      [] n.kind = "StrLitNode" ->
            IF Len(cs) # 0 THEN Raise("AssertionError")
            ELSE [ok |-> TRUE, node |-> StrLitNode(n.line, n.value)]
      [] n.kind = "TemplateNode" -> TemplateWithChildren(n, cs)
      [] n.kind \in BlockKinds -> BlockWithChildren(n, cs)
      [] n.kind = "ListNode" -> [ok |-> TRUE, node |-> ListNode(n.line, cs)]

\* Node.clone: self.with_children([child.clone() for child in self.children()])
Clone(n) ==
    LET cs == Children(n)
    IN  WithChildren(n, [i \in DOMAIN cs |-> Clone(cs[i])]).node

\* __str__ of each node class
RECURSIVE NodeStr(_)
NodeStr(n) ==
    CASE n.kind = "TextNode" -> n.text
      [] n.kind = "InterpolationNode" -> <<"{","{">> \o NodeStr(n.expr) \o <<"}","}">>
      [] n.kind = "ReferenceNode" -> <<".">> \o Join(<<".">>, n.properties)
      [] n.kind = "CallNode" ->
            IF Len(n.args) = 1 THEN NodeStr(n.args[1]) \o <<" ","|"," ">> \o n.name
            ELSE n.name \o <<"(">>
                 \o Join(<<",", " ">>, [i \in DOMAIN n.args |-> NodeStr(n.args[i])])
                 \o <<")">>
      [] n.kind = "StrLitNode" -> StrRepr(n.value)
      [] n.kind = "TemplateNode" ->
            <<"{","{">> \o KwTemplate \o <<" ">> \o NodeStr(n.name)
            \o (IF n.expr # NoNode THEN <<" ">> \o NodeStr(n.expr) ELSE <<>>)
            \o <<"}","}">>
      [] n.kind \in BlockKinds ->
            <<"{","{">> \o n.name \o <<" ">> \o NodeStr(n.expr) \o <<"}","}">>
            \o NodeStr(n.body)
            \o (IF n.else_clause # NoNode THEN TokElse \o NodeStr(n.else_clause) ELSE <<>>)
            \o TokEnd
      [] n.kind = "ListNode" -> Concat([i \in DOMAIN n.elements |-> NodeStr(n.elements[i])])

\* Env.__str__: the templates as {{define NAME}}BODY{{end}}, joined by a
\* blank line, in the order iteritems gives them
EnvStr(templates, order) ==
    Join(<<"\n", "\n">>,
         [i \in DOMAIN order |->
             DefinePrefix \o <<" ">> \o order[i] \o <<"}","}">>
             \o NodeStr(templates[order[i]]) \o TokEnd])

\* the orders in which a dict can give its keys
KeyOrders(keys) ==
    {order \in [1..Cardinality(keys) -> keys] :
        \A i, j \in DOMAIN order : i # j => order[i] # order[j]}

-----------------------------------------------------------------------------
(* escape(env, name) *)

\* esc(node): an interpolation's expression wrapped in html(...), expression
\* nodes as they are, any other node rebuilt from its rewritten children
RECURSIVE Esc(_)

\* esc without its descent: an interpolation is wrapped where it is the whole
\* template, any other node is returned as it is
EscShallow(n) ==
    IF n.kind = "InterpolationNode"
    THEN WithChildren(n, <<CallNode(n.line, Html, <<n.expr>>)>>).node
    ELSE n

Esc(n) ==
    IF n.kind = "InterpolationNode"
    THEN WithChildren(n, <<CallNode(n.line, Html, <<n.expr>>)>>).node
    ELSE IF n.kind \in ExprKinds THEN n
    ELSE LET cs == Children(n)
         IN  WithChildren(n, [i \in DOMAIN cs |-> Esc(cs[i])]).node

\* escape: [ok |-> TRUE, fns, templates] as it leaves the registry and the
\* template map, or the assertion's failure
Escape(registry, templates, tname) ==
    IF tname \notin DOMAIN templates THEN Raise("AssertionError")
    ELSE [ok |-> TRUE, fns |-> registry \cup {Html},
          templates |-> [templates EXCEPT ![tname] = Esc(templates[tname])]]

-----------------------------------------------------------------------------
(* Bounds and the inputs the operations are given *)

MaxCut == 2       \* characters cut from the end of a source
MaxItems == 3     \* elements of a sequence ranged over
MaxProps == 2     \* properties in a reference chain
MaxEscapes == 1   \* escape calls on one environment
MaxRuns == 1      \* executions and renderings of an environment between two changes of it
MaxKids == 3      \* nodes given to with_children

Dir(inner) == <<"{","{">> \o inner \o <<"}","}">>

\* A
TxtA == <<"A">>
\* B
TxtB == <<"B">>
\* Hi 
TxtHi == <<"H","i"," ">>
\* !
TxtBang == <<"!">>
\*  
TxtSpace == <<" ">>
\* \n 
TxtNlSpace == <<"\n"," ">>
\*  A
TxtSpaceA == <<" ","A">>
\* .x
RefX == <<".","x">>
\* .y
RefY == <<".","y">>
\* .who
RefWho == <<".","w","h","o">>
\* .a.b
RefAB == <<".","a",".","b">>
\* "a"
LitA == <<"\"","a","\"">>
\* "t"
LitT == <<"\"","t","\"">>
\* t
NameT == <<"t">>
\* m
NameM == <<"m">>
\* x
KeyX == <<"x">>
\* y
KeyY == <<"y">>
\* a
KeyA == <<"a">>
\* b
KeyB == <<"b">>
\* who
KeyWho == <<"w","h","o">>
\* f
FnF == <<"f">>
\* g
FnG == <<"g">>

\* E | f | g   and   g(f(E))
PipeText(e, f, g) == e \o <<" ","|"," ">> \o f \o <<" ","|"," ">> \o g
CallText(e, f, g) == g \o <<"(">> \o f \o <<"(">> \o e \o <<")",")">>

\* {{define "NAME"}}BODY{{end}}
DefineSrc(tname, body) ==
    Dir(<<"d","e","f","i","n","e"," ","\"">> \o tname \o <<"\"">>) \o body \o TokEnd

\* {{KW COND}}BODY{{end}}   and   {{KW COND}}BODY{{else}}ELSE{{end}}
BlockSrc(kw, cond, body) == Dir(kw \o <<" ">> \o cond) \o body \o TokEnd
BlockElseSrc(kw, cond, body, els) ==
    Dir(kw \o <<" ">> \o cond) \o body \o TokElse \o els \o TokEnd

\* statement lists that stand as the body of a block or of a template
Bodies == {TxtA, Dir(RefY), Dir(RefY) \o TxtBang, <<>>}
ElseBodies == {TxtB, Dir(RefX)}
Conds == {RefX, LitA}

DefineSources ==
    {DefineSrc(NameT, b) : b \in {TxtHi \o Dir(RefWho) \o TxtBang, TxtA}}

IfSources ==
    {BlockSrc(KwIf, c, a) : <<c, a>> \in Conds \X Bodies}
    \cup {BlockElseSrc(KwIf, c, a, b) : <<c, a, b>> \in Conds \X Bodies \X ElseBodies}

RangeSources ==
    {BlockSrc(KwRange, RefX, a) : a \in Bodies}
    \cup {BlockElseSrc(KwRange, RefX, a, b) : <<a, b>> \in Bodies \X ElseBodies}

WithSources ==
    {BlockSrc(KwWith, RefX, Dir(RefY)), BlockElseSrc(KwWith, RefX, Dir(RefY), TxtB)}

PlainSources ==
    {<<>>, TxtA, TxtHi \o Dir(RefWho) \o TxtBang, Dir(RefX), Dir(RefAB),
     Dir(PipeText(RefX, FnF, FnG)), Dir(CallText(RefX, FnF, FnG)),
     Dir(KwTemplate \o <<" ">> \o LitT), Dir(KwTemplate \o <<" ">> \o LitT \o <<" ">> \o RefX),
     BlockSrc(KwIf, RefX, BlockSrc(KwRange, RefX, Dir(RefY))),
     TxtA \o Dir(RefX) \o Dir(RefY),
     TokEnd, TxtA \o TokElse}

\* white-space before and after
Leads == {<<>>, TxtSpace, TxtNlSpace, TxtSpaceA}
Trails == {<<>>, TxtSpace}
SpacedSources ==
    {l \o c \o t : <<l, c, t>> \in
        Leads \X {<<>>, Dir(RefX), BlockSrc(KwIf, RefX, TxtA)} \X Trails}

WholeSources ==
    DefineSources \cup IfSources \cup RangeSources \cup WithSources
        \cup PlainSources \cup SpacedSources

\* a source with its last k characters missing: its last directive unterminated
CutSources ==
    {SubSeq(w, 1, Len(w) - k) : <<w, k>> \in
        {x \in WholeSources \X (1..MaxCut) :
            Len(x[1]) >= 4 /\ SubSeq(x[1], Len(x[1]) - 1, Len(x[1])) = <<"}","}">>}}

Sources == WholeSources \cup CutSources

ExternalNames == {NoName, Named(NameM)}

TemplateNames == {NameM, NameT}

EmptyDict == [n \in {} |-> VNone]

\* the element i of a sequence ranged over: {"y": "<i>"}
Item(i) == VDict(KeyY :> VStr(IntStr(i)))
Items(n) == VList([i \in 1..n |-> Item(i)])

\* values of the property x
XValues ==
    {VNone, VStr(<<>>), VInt(0), VList(<<>>), VDict(EmptyDict),
     VStr(<<"a">>), VInt(1), VDict(KeyY :> VStr(<<"<","b",">">>)),
     Items(1), Items(MaxItems)}

DataValues ==
    {VNone,
     VDict(KeyWho :> VStr(<<"S","a","m">>)),
     VDict(<<"w">> :> VStr(<<"S","a","m">>))}
    \cup {VDict(KeyX :> v @@ KeyY :> VStr(<<"Y">>)) : v \in XValues}

-----------------------------------------------------------------------------
(* The life of one environment: parse_templates, then execute, escape and  *)
(* str / parse_templates again                                             *)

\* no object built
NoHeap == [nodes |-> <<>>, maps |-> <<>>, regs |-> <<>>, envs |-> <<>>, origin |-> <<>>]

NoResult == [ok |-> FALSE, exc |-> "none"]
Idle == [op |-> "none"]

Init ==
    /\ code \in Sources
    /\ name \in ExternalNames
    /\ env = [state |-> "new", res |-> NoResult]
    /\ fns = {}
    /\ last = Idle
    /\ escapes = 0
    /\ runs = 0
    /\ etext = <<>>
    /\ eres = Idle
    /\ node = NoNode
    /\ nres = Idle
    /\ heap = NoHeap

\* env = parse_templates(src, code, name)
Parse ==
    /\ env.state = "new"
    /\ env' = [state |-> "done", res |-> ParseTemplates(code, name)]
    /\ last' = [op |-> "parse"]
    /\ UNCHANGED <<heap, code, name, fns, escapes, runs, etext, eres, node, nres>>

Parsed == env.state = "done" /\ env.res.ok

\* the Env parse_templates returned, as escape has left it
TheEnv == Env(VNone, fns, env.res.templates)

\* out = env.with_data(data).sexecute(tname)
ExecuteTemplate(tname, data) ==
    /\ Parsed
    /\ runs < MaxRuns
    /\ last' = [op |-> "execute", tname |-> tname, data |-> data,
                res |-> EnvExecute(WithData(TheEnv, data), tname, <<>>)]
    /\ runs' = runs + 1
    /\ UNCHANGED <<heap, code, name, env, fns, escapes, etext, eres, node, nres>>

\* escape(env, tname)
EscapeTemplate(tname) ==
    /\ Parsed
    /\ escapes < MaxEscapes
    /\ LET r == Escape(fns, env.res.templates, tname)
       IN  IF r.ok
           THEN /\ fns' = r.fns
                /\ env' = [env EXCEPT !.res.templates = r.templates]
                /\ last' = [op |-> "escape", tname |-> tname, ok |-> TRUE,
                            before |-> env.res.templates]
           ELSE /\ UNCHANGED <<fns, env>>
                /\ last' = [op |-> "escape", tname |-> tname, ok |-> FALSE,
                            before |-> env.res.templates]
    /\ escapes' = escapes + 1
    /\ runs' = 0
    /\ UNCHANGED <<heap, code, name, etext, eres, node, nres>>

\* parse_templates(src, str(env)): order is the order iteritems gives
Reparse ==
    /\ Parsed
    /\ runs < MaxRuns
    /\ \E order \in KeyOrders(DOMAIN env.res.templates) :
          LET text == EnvStr(env.res.templates, order)
          IN  last' = [op |-> "reparse", text |-> text,
                       res |-> ParseTemplates(text, NoName)]
    /\ runs' = runs + 1
    /\ UNCHANGED <<heap, code, name, env, fns, escapes, etext, eres, node, nres>>

Next ==
    \/ Parse
    \/ \E tname \in TemplateNames, data \in DataValues : ExecuteTemplate(tname, data)
    \/ \E tname \in TemplateNames : EscapeTemplate(tname)
    \/ Reparse

Spec == Init /\ [][Next]_vars

-----------------------------------------------------------------------------
(* One expression written in a directive: parse_expr on its text, then     *)
(* execute of the expression node on a data value                          *)

PropNames == {KeyA, KeyB, KeyWho}

\* the property sequences (p1, ..., pn) and the text .p1.p2...pn of each
PropSeqs == UNION {[1..n -> PropNames] : n \in 1..MaxProps}
RefText(props) == Concat([i \in DOMAIN props |-> <<".">> \o props[i]])

Atoms == {RefX, LitA, RefAB}
FnNames == {FnF, FnG}

ExprTexts ==
    {RefText(props) : props \in PropSeqs}
    \cup Atoms
    \cup {PipeText(e, f, g) : <<e, f, g>> \in Atoms \X FnNames \X FnNames}
    \cup {CallText(e, f, g) : <<e, f, g>> \in Atoms \X FnNames \X FnNames}

ExprData ==
    {VNone,
     VDict(KeyA :> VDict(KeyB :> VInt(5))),
     VDict(KeyA :> VNone),
     VDict(KeyA :> VInt(5)),
     VDict(KeyWho :> VStr(<<"S","a","m">>)),
     VDict(KeyX :> VStr(<<"<","b",">">>))}

\* what the inner functions close over when the source is {{text}}
DirectiveCtx(text) ==
    LET split(all) == [toks |-> TrimTrailing(all), lines |-> TokenLines(all)]
    IN  split(Tokenize(NormalizeNewlines(Dir(text))))

InitExpr ==
    /\ etext \in ExprTexts
    /\ eres = Idle
    /\ code = <<>>
    /\ name = NoName
    /\ env = [state |-> "new", res |-> NoResult]
    /\ fns = {}
    /\ last = Idle
    /\ escapes = 0
    /\ runs = 0
    /\ node = NoNode
    /\ nres = Idle
    /\ heap = NoHeap

\* parse_expr(pos, token[2:-2]) at the directive {{etext}}
ParseExpression ==
    /\ eres = Idle
    /\ eres' = [op |-> "parse", res |-> ParseExpr(DirectiveCtx(etext), 2, etext)]
    /\ UNCHANGED <<heap, code, name, env, fns, last, escapes, runs, etext, node, nres>>

\* expr.execute(env.with_data(data), None) of the expression parsed
EvaluateExpression(data) ==
    /\ eres.op = "parse"
    /\ eres.res.ok
    /\ eres' = [op |-> "eval", node |-> eres.res.node, data |-> data,
                res |-> EvalExpr(eres.res.node, Env(data, fns, NoTemplates))]
    /\ UNCHANGED <<heap, code, name, env, fns, last, escapes, runs, etext, node, nres>>

NextExpr ==
    \/ ParseExpression
    \/ \E data \in ExprData : EvaluateExpression(data)

SpecExpr == InitExpr /\ [][NextExpr]_vars

-----------------------------------------------------------------------------
(* One node: with_children and clone                                       *)

\* sources whose templates hold every node class
NodeSources ==
    {TxtA, Dir(RefX), Dir(PipeText(RefX, FnF, FnG)), Dir(LitA),
     Dir(KwTemplate \o <<" ">> \o LitT),
     Dir(KwTemplate \o <<" ">> \o LitT \o <<" ">> \o RefX),
     BlockSrc(KwIf, RefX, TxtA),
     BlockElseSrc(KwRange, RefX, Dir(RefY), TxtB),
     BlockElseSrc(KwWith, RefX, TxtA, TxtB),
     TxtA \o Dir(RefX) \o Dir(RefY)}

Statements == {ParseTemplates(s, Named(NameM)).templates[NameM] : s \in NodeSources}

\* the parsed trees and the nodes they hold as children
NodePool ==
    Statements
    \cup UNION {{Children(n)[i] : i \in DOMAIN Children(n)} : n \in Statements}

KidPool == {StrLitNode(0, <<"a">>), ReferenceNode(0, <<KeyY>>), TextNode(0, TxtB)}

\* the sequences of at most MaxKids nodes given as children
KidSeqs == UNION {[1..n -> KidPool] : n \in 0..MaxKids}

InitNode ==
    /\ node \in NodePool
    /\ nres = Idle
    /\ code = <<>>
    /\ name = NoName
    /\ env = [state |-> "new", res |-> NoResult]
    /\ fns = {}
    /\ last = Idle
    /\ escapes = 0
    /\ runs = 0
    /\ etext = <<>>
    /\ eres = Idle
    /\ heap = NoHeap

\* node.with_children(cs)
WithChildrenOf(cs) ==
    /\ nres' = [op |-> "with_children", cs |-> cs, res |-> WithChildren(node, cs)]
    /\ UNCHANGED <<heap, code, name, env, fns, last, escapes, runs, etext, eres, node>>

\* node.clone()
CloneOf ==
    /\ nres' = [op |-> "clone", res |-> Clone(node)]
    /\ UNCHANGED <<heap, code, name, env, fns, last, escapes, runs, etext, eres, node>>

NextNode ==
    \/ \E cs \in KidSeqs : WithChildrenOf(cs)
    \/ CloneOf

SpecNode == InitNode /\ [][NextNode]_vars

-----------------------------------------------------------------------------
(* Nodes, template maps, registries and Envs as objects.  A node object is *)
(* the record of its fields with references in place of its children; a    *)
(* reference is the index of an object in nodes, NoRef is None.  with_data *)
(* and escape are the source's, acting on the references.                  *)

NoRef == 0

\* the fields of n with refs as its children
WithRefs(n, refs) ==
    CASE n.kind \in {"TextNode", "ReferenceNode", "StrLitNode"} -> n
      [] n.kind = "InterpolationNode" -> [n EXCEPT !.expr = refs[1]]
      [] n.kind = "CallNode" -> [n EXCEPT !.args = refs]
      [] n.kind = "TemplateNode" ->
            [n EXCEPT !.name = refs[1],
                      !.expr = IF Len(refs) = 2 THEN refs[2] ELSE NoRef]
      [] n.kind \in BlockKinds ->
            [n EXCEPT !.expr = refs[1], !.body = refs[2],
                      !.else_clause = IF Len(refs) = 3 THEN refs[3] ELSE NoRef]
      [] n.kind = "ListNode" -> [n EXCEPT !.elements = refs]

\* the constructors called on a tree, children first: the objects and the
\* reference of the root
RECURSIVE Store(_, _), StoreAll(_, _, _)
Store(nodes, tree) ==
    LET built(kids) ==
            [nodes |-> Append(kids.nodes, WithRefs(tree, kids.refs)),
             ref |-> Len(kids.nodes) + 1]
    IN  IF tree = NoNode THEN [nodes |-> nodes, ref |-> NoRef]
        ELSE built(StoreAll(nodes, Children(tree), <<>>))

StoreAll(nodes, trees, refs) ==
    LET next(r) == StoreAll(r.nodes, Tail(trees), Append(refs, r.ref))
    IN  IF trees = <<>> THEN [nodes |-> nodes, refs |-> refs]
        ELSE next(Store(nodes, Head(trees)))

\* children() of the object o
ObjChildren(o) ==
    CASE o.kind \in {"TextNode", "ReferenceNode", "StrLitNode"} -> <<>>
      [] o.kind = "InterpolationNode" -> <<o.expr>>
      [] o.kind = "CallNode" -> o.args
      [] o.kind = "TemplateNode" ->
            IF o.expr # NoRef THEN <<o.name, o.expr>> ELSE <<o.name>>
      [] o.kind \in BlockKinds ->
            IF o.else_clause # NoRef THEN <<o.expr, o.body, o.else_clause>>
            ELSE <<o.expr, o.body>>
      [] o.kind = "ListNode" -> o.elements

\* the tree the reference stands for
RECURSIVE Deref(_, _)
Deref(nodes, ref) ==
    LET tree(o, kids) ==
            CASE o.kind \in {"TextNode", "ReferenceNode", "StrLitNode"} -> o
              [] o.kind = "InterpolationNode" -> [o EXCEPT !.expr = kids[1]]
              [] o.kind = "CallNode" -> [o EXCEPT !.args = kids]
              [] o.kind = "TemplateNode" ->
                    [o EXCEPT !.name = kids[1],
                              !.expr = IF Len(kids) = 2 THEN kids[2] ELSE NoNode]
              [] o.kind \in BlockKinds ->
                    [o EXCEPT !.expr = kids[1], !.body = kids[2],
                              !.else_clause = IF Len(kids) = 3 THEN kids[3] ELSE NoNode]
              [] o.kind = "ListNode" -> [o EXCEPT !.elements = kids]
        of(o, refs) == tree(o, [i \in DOMAIN refs |-> Deref(nodes, refs[i])])
        at(o) == of(o, ObjChildren(o))
    IN  IF ref = NoRef THEN NoNode ELSE at(nodes[ref])

RECURSIVE ObjClone(_, _), ObjCloneAll(_, _, _)

\* a constructor call: the new object is the last of nodes
New(nodes, o) == [ok |-> TRUE, nodes |-> Append(nodes, o), ref |-> Len(nodes) + 1]

\* TemplateNode.with_children: the new node holds a clone of the old name
ObjTemplateWithChildren(nodes, o, refs) ==
    LET made(nm) ==
            New(nm.nodes, [o EXCEPT !.name = nm.ref,
                                    !.expr = IF Len(refs) = 2 THEN refs[2] ELSE NoRef])
    IN  IF Len(refs) > 2 THEN Raise("AssertionError")
        ELSE IF Len(refs) = 0 THEN Raise("IndexError")
        ELSE made(ObjClone(nodes, o.name))

\* with_children(children) of the object o: every class calls its
\* constructor, none assigns to a field of o or of a child
ObjWithChildren(nodes, o, refs) ==
    CASE o.kind \in {"TextNode", "ReferenceNode", "StrLitNode"} ->
            IF Len(refs) # 0 THEN Raise("AssertionError") ELSE New(nodes, o)
      [] o.kind = "InterpolationNode" ->
            IF Len(refs) # 1 THEN Raise("AssertionError")
            ELSE New(nodes, [o EXCEPT !.expr = refs[1]])
      [] o.kind = "CallNode" -> New(nodes, [o EXCEPT !.args = refs])
      [] o.kind = "TemplateNode" -> ObjTemplateWithChildren(nodes, o, refs)
      [] o.kind \in BlockKinds ->
            IF Len(refs) < 2 THEN Raise("IndexError")
            ELSE IF Len(refs) > 3 THEN Raise("AssertionError")
            ELSE New(nodes, [o EXCEPT !.expr = refs[1], !.body = refs[2],
                                      !.else_clause = IF Len(refs) = 3 THEN refs[3]
                                                      ELSE NoRef])
      [] o.kind = "ListNode" -> New(nodes, [o EXCEPT !.elements = refs])

\* Node.clone
ObjClone(nodes, ref) ==
    LET copied(kids) == ObjWithChildren(kids.nodes, nodes[ref], kids.refs)
    IN  copied(ObjCloneAll(nodes, ObjChildren(nodes[ref]), <<>>))

ObjCloneAll(nodes, refs, done) ==
    LET next(r) == ObjCloneAll(r.nodes, Tail(refs), Append(done, r.ref))
    IN  IF refs = <<>> THEN [nodes |-> nodes, refs |-> done]
        ELSE next(ObjClone(nodes, Head(refs)))

RECURSIVE ObjEsc(_, _), ObjEscAll(_, _, _)

\* esc assigning the html(...) call to the expr field of the interpolation it
\* was given
ObjEscInPlace(nodes, ref) ==
    LET wrapped(call) ==
            [ok |-> TRUE, nodes |-> [call.nodes EXCEPT ![ref].expr = call.ref],
             ref |-> ref]
        rebuilt(kids) == ObjWithChildren(kids.nodes, nodes[ref], kids.refs)
    IN  IF nodes[ref].kind = "InterpolationNode"
        THEN wrapped(New(nodes, WithRefs(CallNode(nodes[ref].line, Html, <<>>),
                                         <<nodes[ref].expr>>)))
        ELSE IF nodes[ref].kind \in ExprKinds
        THEN [ok |-> TRUE, nodes |-> nodes, ref |-> ref]
        ELSE rebuilt(ObjEscAll(nodes, ObjChildren(nodes[ref]), <<>>))

\* esc(node) of escape
ObjEsc(nodes, ref) ==
    LET wrapped(call) == ObjWithChildren(call.nodes, nodes[ref], <<call.ref>>)
        rebuilt(kids) == ObjWithChildren(kids.nodes, nodes[ref], kids.refs)
    IN  IF nodes[ref].kind = "InterpolationNode"
        THEN wrapped(New(nodes, WithRefs(CallNode(nodes[ref].line, Html, <<>>),
                                         <<nodes[ref].expr>>)))
        ELSE IF nodes[ref].kind \in ExprKinds
        THEN [ok |-> TRUE, nodes |-> nodes, ref |-> ref]
        ELSE rebuilt(ObjEscAll(nodes, ObjChildren(nodes[ref]), <<>>))

ObjEscAll(nodes, refs, done) ==
    LET next(r) == ObjEscAll(r.nodes, Tail(refs), Append(done, r.ref))
    IN  IF refs = <<>> THEN [nodes |-> nodes, refs |-> done]
        ELSE next(ObjEsc(nodes, Head(refs)))

\* escape(env, name) on the objects of h: the assertion, the registry entry,
\* esc on the stored root, then the one assignment to env.templates[name]
ObjEscape(h, e, tname) ==
    LET stored(r) ==
            [ok |-> TRUE,
             heap |-> [h EXCEPT !.nodes = r.nodes,
                                !.regs[e.fns] = @ \cup {Html},
                                !.maps[e.templates] = [@ EXCEPT ![tname] = r.ref]]]
    IN  IF tname \notin DOMAIN h.maps[e.templates] THEN Raise("AssertionError")
        ELSE stored(ObjEsc(h.nodes, h.maps[e.templates][tname]))

\* env.with_data(data) of the Env i of h: the new Env is the last of envs;
\* origin records which Env it was derived from
ObjWithData(h, i, data) ==
    [h EXCEPT !.envs = Append(@, WithData(h.envs[i], data)),
              !.origin = Append(@, i)]

MaxEnvs == 3      \* Envs: the one constructed and those derived from it
MaxCalls == 2     \* escape calls in a sequence

\* the trees stored as templates
ObjSources ==
    {TxtA \o Dir(RefX) \o Dir(RefY),
     Dir(KwTemplate \o <<" ">> \o LitT \o <<" ">> \o RefX),
     BlockElseSrc(KwIf, RefX, Dir(RefY), TxtB),
     BlockSrc(KwRange, RefX, Dir(PipeText(RefY, FnF, FnG)))}

ObjTrees == {ParseTemplates(s, Named(NameM)).templates[NameM] : s \in ObjSources}

ObjData == {VNone, VDict(KeyX :> VStr(<<"a">>))}

\* the names escape is called with: the last is never a key
ObjNames == {NameM, NameT, KeyX}

\* Env(data, {}, {"m": first}) or Env(data, {}, {"m": first, "t": second}),
\* second being first itself when same
Construct(data, first, second, same) ==
    LET env1 == Env(data, 1, 1)
        both(r, q) ==
            [nodes |-> q.nodes,
             maps |-> <<NameM :> r.ref @@ NameT :> (IF same THEN r.ref ELSE q.ref)>>,
             regs |-> <<{}>>, envs |-> <<env1>>, origin |-> <<0>>]
        one(r) ==
            IF second = NoNode
            THEN [nodes |-> r.nodes, maps |-> <<NameM :> r.ref>>,
                  regs |-> <<{}>>, envs |-> <<env1>>, origin |-> <<0>>]
            ELSE both(r, IF same THEN r ELSE Store(r.nodes, second))
    IN  one(Store(<<>>, first))

InitObj ==
    /\ \E data \in ObjData, first \in ObjTrees, second \in ObjTrees \cup {NoNode},
          same \in BOOLEAN :
            /\ same => second = first
            /\ heap = Construct(data, first, second, same)
    /\ last = Idle
    /\ escapes = 0
    /\ code = <<>>
    /\ name = NoName
    /\ env = [state |-> "new", res |-> NoResult]
    /\ fns = {}
    /\ runs = 0
    /\ etext = <<>>
    /\ eres = Idle
    /\ node = NoNode
    /\ nres = Idle

\* heap.envs[i].with_data(data)
DeriveEnv(i, data) ==
    /\ Len(heap.envs) < MaxEnvs
    /\ heap' = ObjWithData(heap, i, data)
    /\ last' = [op |-> "with_data", env |-> i]
    /\ UNCHANGED <<code, name, env, fns, escapes, runs, etext, eres, node, nres>>

\* escape(heap.envs[i], tname); last keeps the objects as they were before
EscapeEnv(i, tname) ==
    /\ escapes < MaxCalls
    /\ LET done(r) ==
               /\ heap' = IF r.ok THEN r.heap ELSE heap
               /\ last' = [op |-> "escape", env |-> i, tname |-> tname,
                           ok |-> r.ok, before |-> heap]
       IN  done(ObjEscape(heap, heap.envs[i], tname))
    /\ escapes' = escapes + 1
    /\ UNCHANGED <<code, name, env, fns, runs, etext, eres, node, nres>>

NextObj ==
    \/ \E i \in DOMAIN heap.envs, data \in ObjData : DeriveEnv(i, data)
    \/ \E i \in DOMAIN heap.envs, tname \in ObjNames : EscapeEnv(i, tname)

SpecObj == InitObj /\ [][NextObj]_vars

-----------------------------------------------------------------------------
(* Properties of parse_templates, execute, escape and str(env), checked     *)
(* under Spec                                                              *)

Sam == <<"S","a","m">>
HiSam == <<"H","i"," ","S","a","m","!">>

\* C1: a top-level {{define "NAME"}}BODY{{end}} parsed with no external name
\* registers BODY under NAME, and executing "t" of
\* {{define "t"}}Hi {{.who}}!{{end}} with data {"who": "Sam"} appends exactly
\* "Hi Sam!".
C1_DefineRegisters ==
    (env.state = "done" /\ ~name.given /\ code \in DefineSources) =>
        /\ env.res.ok
        /\ NameT \in DOMAIN env.res.templates
        /\ (/\ last.op = "execute"
            /\ last.tname = NameT
            /\ last.data = VDict(KeyWho :> VStr(Sam))
            /\ code = DefineSrc(NameT, TxtHi \o Dir(RefWho) \o TxtBang))
           => last.res = [ok |-> TRUE, out |-> HiSam]

\* C4: parse_templates applied to str(env) succeeds, gives the same template
\* names, and every template renders on every data value what it renders in env.
C4_RenderRoundTrip ==
    last.op = "reparse" =>
        /\ last.res.ok
        /\ DOMAIN last.res.templates = DOMAIN env.res.templates
        /\ \A tname \in DOMAIN env.res.templates, data \in DataValues :
              EnvExecute(Env(data, fns, last.res.templates), tname, <<>>)
                  = EnvExecute(Env(data, fns, env.res.templates), tname, <<>>)

\* new is old with every interpolation's expression wrapped in html(...), the
\* expression nodes as they were, and every other node of the same variant
\* with its children related in the same way, position by position
RECURSIVE C5_Wrapped(_, _)
C5_Wrapped(old, new) ==
    IF old.kind = "InterpolationNode"
    THEN /\ new.kind = "InterpolationNode"
         /\ new.expr.kind = "CallNode"
         /\ new.expr.name = Html
         /\ new.expr.args = <<old.expr>>
    ELSE IF old.kind \in ExprKinds \cup {"TextNode"} THEN new = old
    ELSE /\ new.kind = old.kind
         /\ Len(Children(new)) = Len(Children(old))
         /\ \A i \in DOMAIN Children(old) :
               C5_Wrapped(Children(old)[i], Children(new)[i])

\* C5: after escape(env, name) the tree of name has every interpolation wrapped
\* in a call of 'html' on its original expression, every expression node
\* unwrapped, every other statement node of the same variant with the same
\* child positions, and 'html' is in env.fns.
C5_EscapeWraps ==
    (last.op = "escape" /\ last.ok) =>
        /\ C5_Wrapped(last.before[last.tname], env.res.templates[last.tname])
        /\ Html \in fns

\* escape has run on {{if .x}}{{.y}}!{{end}}: the interpolation inside the block
\* is wrapped, the condition is not
C5_EscapedBlock ==
    /\ last.op = "escape"
    /\ last.ok
    /\ code = BlockSrc(KwIf, RefX, Dir(RefY) \o TxtBang)
    /\ env.res.templates[NameM].kind = "IfNode"
    /\ env.res.templates[NameM].expr.kind = "ReferenceNode"
    /\ env.res.templates[NameM].body.kind = "ListNode"
    /\ env.res.templates[NameM].body.elements[2].kind = "InterpolationNode"
    /\ env.res.templates[NameM].body.elements[2].expr.name = Html

\* C6: a source whose last directive is unterminated makes parse_templates fail
\* with a diagnostic that carries the source name and a line number, with or
\* without an external template name.
C6_UnterminatedFails ==
    (env.state = "done" /\ code \in CutSources) =>
        /\ ~env.res.ok
        /\ env.res.exc = "Exception"
        /\ env.res.src = SrcName
        /\ env.res.line \in Nat

\* what the statement list text renders on data as the whole of a template
RenderOf(text, data) ==
    LET alone(p) ==
            IF p.ok /\ NameM \in DOMAIN p.templates
            THEN EnvExecute(Env(data, {}, p.templates), NameM, <<>>)
            ELSE [ok |-> TRUE, out |-> <<>>]
    IN  alone(ParseTemplates(text, Named(NameM)))

\* what the expression text evaluates to on data
ValueOf(text, data) ==
    EvalExpr(ParseExprPrefix(<<>>, 0, text).node, Env(data, {}, NoTemplates))

Nothing == [ok |-> TRUE, out |-> <<>>]

\* the template m of the unescaped environment parsed from source has just
\* been executed
Rendered(source) ==
    /\ Parsed
    /\ fns = {}
    /\ code = source
    /\ last.op = "execute"
    /\ last.tname = NameM

\* null/absent, empty string, zero, empty container
Falsy == {VNone, VStr(<<>>), VInt(0), VList(<<>>), VDict(EmptyDict)}

\* C7: {{if COND}}A{{else}}B{{end}} appends the rendering of A and nothing of B
\* when COND is truthy, the rendering of B and nothing of A when COND is falsy;
\* without {{else}} a falsy COND appends nothing.
C7_IfBranches ==
    \A c \in Conds, a \in Bodies :
        /\ Rendered(BlockSrc(KwIf, c, a)) =>
              last.res = IF ValueOf(c, last.data).value \notin Falsy
                         THEN RenderOf(a, last.data)
                         ELSE Nothing
        /\ \A b \in ElseBodies :
              Rendered(BlockElseSrc(KwIf, c, a, b)) =>
                  last.res = IF ValueOf(c, last.data).value \notin Falsy
                             THEN RenderOf(a, last.data)
                             ELSE RenderOf(b, last.data)

\* {{if .x}}A{{else}}B{{end}} executed with x = 0 has appended B
C7_ElseTaken ==
    /\ Rendered(BlockElseSrc(KwIf, RefX, TxtA, TxtB))
    /\ last.data = VDict(KeyX :> VInt(0) @@ KeyY :> VStr(<<"Y">>))
    /\ last.res = [ok |-> TRUE, out |-> TxtB]

\* the renderings of body on each of values, appended in order
RECURSIVE InOrder(_, _)
InOrder(body, values) ==
    IF values = <<>> THEN <<>>
    ELSE RenderOf(body, Head(values)).out \o InOrder(body, Tail(values))

\* what C8 says {{range .x}}body{{end}} appends on data, orelse standing for
\* the else-clause: for an absent or empty x and for a non-empty list
RangeRendering(body, orelse, data) ==
    LET x == ValueOf(RefX, data).value
    IN  IF x \in Falsy THEN orelse
        ELSE [ok |-> TRUE, out |-> InOrder(body, x.v)]

\* C8: {{range COND}}BODY{{end}} appends nothing for an absent or empty value
\* without {{else}}; for a sequence of n elements it executes BODY n times, the
\* i-th with data rebound to the i-th element, appending in order; the
\* else-clause runs exactly when the value is absent or empty.
C8_RangeIterates ==
    \A a \in Bodies :
        /\ (/\ Rendered(BlockSrc(KwRange, RefX, a))
            /\ ValueOf(RefX, last.data).value.t \in {"none", "list"})
           => last.res = RangeRendering(a, Nothing, last.data)
        /\ \A b \in ElseBodies :
              (/\ Rendered(BlockElseSrc(KwRange, RefX, a, b))
               /\ ValueOf(RefX, last.data).value.t \in {"none", "list"})
              => last.res = RangeRendering(a, RenderOf(b, last.data), last.data)

\* {{range .x}}{{.y}}{{end}} executed on a list of three elements has appended
\* the y of each, in order
C8_ThreeElements ==
    /\ Rendered(BlockSrc(KwRange, RefX, Dir(RefY)))
    /\ last.data = VDict(KeyX :> Items(3) @@ KeyY :> VStr(<<"Y">>))
    /\ last.res = [ok |-> TRUE, out |-> <<"1", "2", "3">>]

FirstStatement(tree) ==
    IF tree.kind = "ListNode" /\ tree.elements # <<>> THEN tree.elements[1] ELSE tree

LastStatement(tree) ==
    IF tree.kind = "ListNode" /\ tree.elements # <<>>
    THEN tree.elements[Len(tree.elements)]
    ELSE tree

\* parse_templates with an external name has returned an environment that
\* holds the named template
ExternalDefined ==
    /\ Parsed
    /\ name.given
    /\ name.text \in DOMAIN env.res.templates

\* a whitespace-only run at the very end of the source is no TextNode of tree
TrailingDropped(toks, tree) ==
    (Len(toks) > 1 /\ toks[Len(toks)] # <<>> /\ IsBlank(toks[Len(toks)]))
        => ~(/\ LastStatement(tree).kind = "TextNode"
             /\ LastStatement(tree).text = toks[Len(toks)])

\* the text that starts the source is the first TextNode of tree and starts
\* what tree has rendered
LeadingKept(toks, tree) ==
    /\ FirstStatement(tree) = TextNode(0, toks[1])
    /\ (last.op = "execute" /\ last.tname = name.text /\ last.res.ok)
          => StartsWith(last.res.out, toks[1])

\* C10 as written: with an external name, white-space at the end of the source
\* is dropped, and white-space at its start, a whitespace-only run before the
\* first directive included, becomes a TextNode of the named template and
\* appears in its output.
C10_LeadingWhitespaceKept ==
    ExternalDefined =>
        LET toks == Tokenize(NormalizeNewlines(code))
            tree == env.res.templates[name.text]
        IN  /\ TrailingDropped(toks, tree)
            /\ toks[1] # <<>> => LeadingKept(toks, tree)

\* C10, amended: with an external name, white-space at the end of the source is
\* dropped, and so is a whitespace-only run before the first directive: the
\* template and its output are those of the source without that run.  Leading
\* white-space is kept only inside a first text run that holds some other
\* character: that run is the first TextNode and starts the output.
C10_WhitespaceAtEnds ==
    ExternalDefined =>
        LET toks == Tokenize(NormalizeNewlines(code))
            tree == env.res.templates[name.text]
        IN  /\ TrailingDropped(toks, tree)
            /\ ~IsBlank(toks[1]) => LeadingKept(toks, tree)
            /\ (toks[1] # <<>> /\ IsBlank(toks[1])) =>
                  /\ ~(/\ FirstStatement(tree).kind = "TextNode"
                       /\ FirstStatement(tree).text = toks[1])
                  /\ (fns = {} /\ last.op = "execute" /\ last.tname = NameM)
                        => last.res = RenderOf(DropFirst(NormalizeNewlines(code),
                                                         Len(toks[1])),
                                               last.data)

\* " {{.x}} " parsed with the external name m: the template is the
\* interpolation alone
C10_BlankEndsDropped ==
    /\ ExternalDefined
    /\ code = TxtSpace \o Dir(RefX) \o TxtSpace
    /\ env.res.templates[NameM] = InterpolationNode(0, ReferenceNode(0, <<KeyX>>))

-----------------------------------------------------------------------------
(* Properties of the expression parser, checked under SpecExpr             *)

\* C2: .p1.p2...pn parses to a reference whose property sequence is
\* (p1, ..., pn), and evaluating it walks the data through those lookups, an
\* absent intermediate value giving an absent value: .a.b is 5 on
\* {"a": {"b": 5}} and absent on {"a": null}.
C2_ReferenceChain ==
    /\ \A props \in PropSeqs :
          (eres.op = "parse" /\ etext = RefText(props)) =>
              /\ eres.res.ok
              /\ eres.res.node.kind = "ReferenceNode"
              /\ eres.res.node.properties = props
    /\ (eres.op = "eval" /\ etext = RefAB) =>
          /\ eres.data = VDict(KeyA :> VDict(KeyB :> VInt(5)))
                => eres.res = [ok |-> TRUE, value |-> VInt(5)]
          /\ eres.data = VDict(KeyA :> VNone)
                => eres.res = [ok |-> TRUE, value |-> VNone]

\* the node the atom text parses to
AtomNode(text) == ParseExprPrefix(<<>>, 0, text).node

\* C3: for every atom E and names f, g the texts "E | f | g" and "g(f(E))" both
\* parse, and both to CallNode(g, (CallNode(f, (E,)),)).
C3_PipelineDesugars ==
    \A e \in Atoms, f \in FnNames, g \in FnNames :
        (eres.op = "parse" /\ etext \in {PipeText(e, f, g), CallText(e, f, g)}) =>
            /\ eres.res.ok
            /\ eres.res.node = CallNode(0, g, <<CallNode(0, f, <<AtomNode(e)>>)>>)

-----------------------------------------------------------------------------
(* Properties of with_children and clone, checked under SpecNode           *)

\* C9: for cs as long as n.children(), n.with_children(cs) is a node of the
\* variant of n whose children() is cs, position by position; n.clone() is
\* structurally equal to n.
C9_WithChildrenConsistent ==
    /\ (nres.op = "with_children" /\ Len(nres.cs) = Len(Children(node))) =>
          /\ nres.res.ok
          /\ nres.res.node.kind = node.kind
          /\ Children(nres.res.node) = nres.cs
    /\ nres.op = "clone" => nres.res = node

-----------------------------------------------------------------------------
(* Properties of escape and with_data on the objects, checked under SpecObj *)

\* Env j was derived from Env i by with_data, in one step or several
RECURSIVE DerivedFrom(_, _, _)
DerivedFrom(origin, i, j) ==
    /\ origin[j] # 0
    /\ (origin[j] = i \/ DerivedFrom(origin, i, origin[j]))

\* escape has just run on an Env and returned
EscapeReturned == last.op = "escape" /\ last.ok

\* the template map escape assigned to, and the root it held before
EscapedMap == last.before.envs[last.env].templates
OldRoot == last.before.maps[EscapedMap][last.tname]
NewRoot == heap.maps[EscapedMap][last.tname]

\* every entry but the one escaped refers to the root object it referred to
OtherEntriesKept ==
    /\ DOMAIN heap.maps = DOMAIN last.before.maps
    /\ \A k \in DOMAIN heap.maps :
          /\ DOMAIN heap.maps[k] = DOMAIN last.before.maps[k]
          /\ \A n \in DOMAIN heap.maps[k] :
                (k # EscapedMap \/ n # last.tname)
                    => heap.maps[k][n] = last.before.maps[k][n]

\* no Env object changed: its data, its registry and its map are the same
EnvsKept == heap.envs = last.before.envs

\* every node object that existed holds the fields it held, so the old root
\* still stands for the tree it stood for
NodesKept ==
    /\ \A a \in DOMAIN last.before.nodes : heap.nodes[a] = last.before.nodes[a]
    /\ Deref(heap.nodes, OldRoot) = Deref(last.before.nodes, OldRoot)

\* the Env escaped and every Env derived from it find the rewritten root
\* under the name, and html in their registry
SeenByDerived ==
    /\ Deref(heap.nodes, NewRoot) = Esc(Deref(last.before.nodes, OldRoot))
    /\ \A j \in DOMAIN heap.envs :
          (j = last.env \/ DerivedFrom(heap.origin, last.env, j))
              => /\ heap.maps[heap.envs[j].templates][last.tname] = NewRoot
                 /\ Html \in heap.regs[heap.envs[j].fns]

\* C11: after each escape(env, name) of a sequence, every other entry of every
\* template map refers to the same root object as before the call, the data of
\* every Env is unchanged, every node object that existed before the call
\* holds the same fields (the old root still stands for its unwrapped tree),
\* and every Env derived from env by with_data finds the rewritten root under
\* name and html in its registry.
C11_EscapeFrame ==
    EscapeReturned => OtherEntriesKept /\ EnvsKept /\ NodesKept /\ SeenByDerived

\* the second escape of a sequence has run on an Env whose map holds another
\* template, through an Env derived twice from the one constructed; the
\* escaped tree held an interpolation, the other entry is in place and the
\* Env constructed finds the wrapped tree
C11_EscapedThroughDerived ==
    /\ EscapeReturned
    /\ escapes = MaxCalls
    /\ Len(heap.envs) = MaxEnvs
    /\ DerivedFrom(heap.origin, 1, last.env)
    /\ heap.origin[last.env] # 1
    /\ DOMAIN heap.maps[EscapedMap] = {NameM, NameT}
    /\ NewRoot # OldRoot
    /\ Deref(heap.nodes, NewRoot) # Deref(heap.nodes, OldRoot)
    /\ heap.maps[heap.envs[1].templates][last.tname] = NewRoot
    /\ \E n \in {NameM, NameT} \ {last.tname} :
          heap.maps[EscapedMap][n] = last.before.maps[EscapedMap][n]

====
